---- MODULE Spec2Model ----
(***************************************************************************)
(* Model of environments/openspiel/llm_bot.py: the LLMBot turn decision    *)
(* pipeline (prompt, bridged LLM call with retries, response parsing,      *)
(* fallback) and the per-episode bookkeeping it maintains.                 *)
(*                                                                         *)
(* A game state is represented by what the bot reads from it: the ordered  *)
(* legal actions of the bot's player.  A response text is a sequence of    *)
(* one-character strings.  The numpy RandomState is abstracted to a        *)
(* position in a fixed pseudo-random stream.                               *)
(***************************************************************************)
EXTENDS Integers, Sequences, FiniteSets, TLC

VARIABLES
    game,            \* self._game.get_type().short_name
    player_id,       \* self._player_id
    rng,             \* self._rng
    action_history,  \* self._action_history
    conversation,    \* self._conversation
    last_error,      \* self._last_error
    total_usage,     \* self._total_usage
    pc,              \* position of the caller inside step ("idle" outside)
    state,           \* the state argument of the running step
    prompt,          \* local prompt of the running step
    attempt,         \* loop variable of the retry loop
    response,        \* local response of the running step
    worker,          \* the executor's worker thread of the current attempt
    turn,            \* observation of the running / last step
    pre,             \* episode fields as they were when the step was entered
    episode,         \* observation of the episode since the last restart_at
    lastOp,          \* the operation that returned last
    parsed           \* parser harness: last _parse_action call and its result

vars == <<game, player_id, rng, action_history, conversation, last_error,
          total_usage, pc, state, prompt, attempt, response, worker, turn,
          pre, episode, lastOp, parsed>>

----------------------------------------------------------------------------
(* Bounds of the model *)

MaxAction == 1       \* action ids are 0..MaxAction
MaxLen == 3          \* longest response text handed to the parser harness
MaxTok == 1          \* largest token count in a usage record
MaxTurns == 2        \* step calls per episode
MaxInform == 1       \* inform_action calls per episode
MaxPairs == 2        \* prompt/response pairs in the transcript
RngPeriod == 2       \* period of the pseudo-random stream

(* Program constants *)

max_retries == 3
call_timeout == 120

----------------------------------------------------------------------------
(* Values *)

None == [kind |-> "None"]

Players == {0, 1}
Actions == 0 .. MaxAction
Games == {"liars_dice", "kuhn_poker"}

Digits == <<"0", "1">>
Alphabet == {"0", "1", "a", " "}

RECURSIVE TextsUpTo(_)
TextsUpTo(n) ==
    IF n = 0 THEN {<< >>}
    ELSE LET shorter == TextsUpTo(n - 1)
         IN  shorter \cup {Append(t, c) : t \in {s \in shorter : Len(s) = n - 1}, c \in Alphabet}

\* state.legal_actions(player): a non-empty ascending sequence of action ids
RECURSIVE SortedSeq(_)
SortedSeq(S) ==
    IF S = {} THEN << >>
    ELSE LET m == CHOOSE x \in S : \A y \in S : x <= y
         IN  <<m>> \o SortedSeq(S \ {m})

LegalSets == {SortedSeq(S) : S \in (SUBSET Actions) \ {{}}}

SeqToSet(s) == {s[i] : i \in 1 .. Len(s)}

----------------------------------------------------------------------------
(* np.random.RandomState: rng.choice(legal_actions) reads the stream at the *)
(* current position and advances it.                                        *)

RngChoice(r, legal_actions) == legal_actions[(r % Len(legal_actions)) + 1]
RngNext(r) == (r + 1) % RngPeriod

----------------------------------------------------------------------------
(* _parse_action: re.search(r"\b(\d+)\b", response.strip()), int(), legality *)

IsDigit(c) == \E d \in 1 .. Len(Digits) : Digits[d] = c
IsWordChar(c) == IsDigit(c) \/ c = "a"
IsSpace(c) == c = " "

DigitValue(c) == (CHOOSE d \in 1 .. Len(Digits) : Digits[d] = c) - 1

\* str.strip(): drop leading and trailing whitespace
Strip(s) ==
    LET keep == {i \in 1 .. Len(s) : ~IsSpace(s[i])}
    IN  IF keep = {} THEN << >>
        ELSE LET lo == CHOOSE i \in keep : \A j \in keep : i <= j
                 hi == CHOOSE i \in keep : \A j \in keep : j <= i
             IN  SubSeq(s, lo, hi)

\* \b at the gap before position i (1 .. Len(s)+1): exactly one side is a word character
WordBoundary(s, i) ==
    LET before == i > 1 /\ IsWordChar(s[i - 1])
        after  == i <= Len(s) /\ IsWordChar(s[i])
    IN  before # after

\* the pattern matches s[i..j]: \b, one or more digits, \b
MatchesAt(s, i, j) ==
    /\ i <= j
    /\ WordBoundary(s, i)
    /\ \A k \in i .. j : IsDigit(s[k])
    /\ WordBoundary(s, j + 1)

\* re.search: leftmost start, and the longest digit run from it (greedy)
ReSearch(s) ==
    LET spans == {ij \in (1 .. Len(s)) \X (1 .. Len(s)) : MatchesAt(s, ij[1], ij[2])}
    IN  IF spans = {} THEN << >>
        ELSE LET i == CHOOSE a \in {ij[1] : ij \in spans} : \A ij \in spans : a <= ij[1]
                 j == CHOOSE b \in {ij[2] : ij \in {x \in spans : x[1] = i}} :
                          \A ij \in {x \in spans : x[1] = i} : ij[2] <= b
             IN  SubSeq(s, i, j)

\* int(match.group(1))
RECURSIVE ToInt(_)
ToInt(ds) ==
    IF ds = << >> THEN 0
    ELSE 10 * ToInt(SubSeq(ds, 1, Len(ds) - 1)) + DigitValue(ds[Len(ds)])

\* variant: the legality test of line 341 is left out
_parse_action_unchecked(text, legal_actions, r) ==
    LET match == ReSearch(Strip(text))
    IN  IF match # << >>
        THEN [action |-> ToInt(match), rng |-> r, draws |-> 0]
        ELSE [action |-> RngChoice(r, legal_actions), rng |-> RngNext(r), draws |-> 1]

\* variant: the search goes on to the first integer that is legal
_parse_action_first_legal(text, legal_actions, r) ==
    LET s == Strip(text)
        hits == {ij \in (1 .. Len(s)) \X (1 .. Len(s)) :
                    /\ MatchesAt(s, ij[1], ij[2])
                    /\ ToInt(SubSeq(s, ij[1], ij[2])) \in SeqToSet(legal_actions)}
    IN  IF hits # {}
        THEN LET ij == CHOOSE h \in hits : \A o \in hits : h[1] <= o[1]
             IN  [action |-> ToInt(SubSeq(s, ij[1], ij[2])), rng |-> r, draws |-> 0]
        ELSE [action |-> RngChoice(r, legal_actions), rng |-> RngNext(r), draws |-> 1]

\* variant: the fallback choice is drawn before the text is looked at
_parse_action_eager_draw(text, legal_actions, r) ==
    LET match == ReSearch(Strip(text))
    IN  IF match # << >> /\ ToInt(match) \in SeqToSet(legal_actions)
        THEN [action |-> ToInt(match), rng |-> RngNext(r), draws |-> 1]
        ELSE [action |-> RngChoice(r, legal_actions), rng |-> RngNext(r), draws |-> 1]

\* the value returned and the random state left behind
_parse_action(text, legal_actions, r) ==
    LET match == ReSearch(Strip(text))
    IN  IF match # << >> /\ ToInt(match) \in SeqToSet(legal_actions)
        THEN [action |-> ToInt(match), rng |-> r, draws |-> 0]
        ELSE [action |-> RngChoice(r, legal_actions), rng |-> RngNext(r), draws |-> 1]

----------------------------------------------------------------------------
(* _generate_prompt and its two strategies; a prompt is represented by the  *)
(* inputs that determine its text.                                          *)

_generate_default_prompt(st, game_name) ==
    [style |-> "default", game |-> game_name, legal |-> st]

_generate_liars_dice_prompt(st, is_first_turn) ==
    IF is_first_turn
    THEN [style |-> "rules", game |-> "liars_dice", legal |-> st]
    ELSE [style |-> "concise", game |-> "liars_dice", legal |-> st]

_generate_prompt(game_name, st, conv) ==
    LET is_first_turn == Len(conv) = 0
    IN  IF game_name = "liars_dice"
        THEN _generate_liars_dice_prompt(st, is_first_turn)
        ELSE _generate_default_prompt(st, game_name)

----------------------------------------------------------------------------
(* What an LLM attempt can hand back *)

StrResponse(t) == [kind |-> "str", text |-> t]

Missing == [k |-> "missing"]
Bad == [k |-> "bad"]
Count(n) == [k |-> "int", v |-> n]

UsageDict(p, c, t) ==
    [kind |-> "dict", prompt_tokens |-> p, completion_tokens |-> c, total_tokens |-> t]
NotAMapping == [kind |-> "list"]

NotAPair == [kind |-> "notpair"]
Pair(r, u) == [kind |-> "pair", response |-> r, usage |-> u]

\* what the modelled LLM function returns on an attempt: texts with a legal
\* or illegal id, no integer, two integers, a content that is no string;
\* usage records complete, absent, empty, partial, with a count that is no
\* number, and no mapping at all
Results ==
    {NotAPair,
     Pair(StrResponse(<<"1">>), UsageDict(Count(MaxTok), Count(1), Count(MaxTok))),
     Pair(StrResponse(<<"a">>), None),
     Pair(StrResponse(<<"0", " ", "1">>), UsageDict(Missing, Count(1), Missing)),
     Pair(None, UsageDict(Missing, Missing, Missing)),
     Pair(StrResponse(<<"1">>), UsageDict(Count(1), Bad, Count(1))),
     Pair(StrResponse(<<"a">>), NotAMapping)}

RaisedByLLM == {"RuntimeError", "TimeoutError"}

ZeroUsage == [prompt_tokens |-> 0, completion_tokens |-> 0, total_tokens |-> 0]

\* bool(usage)
Truthy(u) ==
    CASE u.kind = "None" -> FALSE
      [] u.kind = "list" -> TRUE
      [] u.kind = "dict" ->
            \/ u.prompt_tokens # Missing
            \/ u.completion_tokens # Missing
            \/ u.total_tokens # Missing

\* usage.get(key, 0) for a present or missing count
Reported(f) == IF f.k = "int" THEN f.v ELSE 0

\* variant: the counts are assigned instead of added
Accumulate_assign(total, u) ==
    IF ~Truthy(u) THEN [usage |-> total, exc |-> ""]
    ELSE IF u.kind # "dict" THEN [usage |-> total, exc |-> "AttributeError"]
    ELSE IF Bad \in {u.prompt_tokens, u.completion_tokens, u.total_tokens}
         THEN [usage |-> total, exc |-> "TypeError"]
    ELSE [usage |-> [prompt_tokens |-> Reported(u.prompt_tokens),
                     completion_tokens |-> Reported(u.completion_tokens),
                     total_tokens |-> Reported(u.total_tokens)],
          exc |-> ""]

\* lines 119-124: the three additions in order; the first one that cannot
\* be carried out raises and leaves the earlier ones in place
Accumulate(total, u) ==
    IF ~Truthy(u) THEN [usage |-> total, exc |-> ""]
    ELSE IF u.kind # "dict" THEN [usage |-> total, exc |-> "AttributeError"]
    ELSE IF u.prompt_tokens = Bad THEN [usage |-> total, exc |-> "TypeError"]
    ELSE LET t1 == [total EXCEPT !.prompt_tokens = @ + Reported(u.prompt_tokens)]
         IN  IF u.completion_tokens = Bad THEN [usage |-> t1, exc |-> "TypeError"]
             ELSE LET t2 == [t1 EXCEPT !.completion_tokens = @ + Reported(u.completion_tokens)]
                  IN  IF u.total_tokens = Bad THEN [usage |-> t2, exc |-> "TypeError"]
                      ELSE [usage |-> [t2 EXCEPT !.total_tokens = @ + Reported(u.total_tokens)],
                            exc |-> ""]

----------------------------------------------------------------------------
(* Observation records *)

NoTurn == [legal |-> << >>, prompt |-> None, calls |-> 0, failed |-> 0,
           timeouts |-> 0, sleeps |-> 0, outcome |-> "none", path |-> "none",
           result |-> -1, stages |-> << >>, sent |-> {}, parses |-> 0, draws |-> 0]

\* the observation after one more failed attempt
Failed(t, kind) ==
    [t EXCEPT !.failed = @ + 1,
              !.timeouts = IF kind = "timeout" THEN @ + 1 ELSE @]

NewEpisode == [turns |-> 0, informs |-> 0, reported |-> ZeroUsage,
               fallbacks |-> 0, exhausted |-> None, ok_turns |-> 0, moves |-> 0,
               own_told |-> 0, protocol |-> TRUE]

\* what restart_at found: whether every episode field had content to clear
Found == [kind |-> "restart",
          dirty |-> /\ action_history # << >>
                    /\ conversation # << >>
                    /\ last_error # None
                    /\ total_usage.prompt_tokens > 0
                    /\ total_usage.completion_tokens > 0
                    /\ total_usage.total_tokens > 0]

Snapshot == [kind |-> "step", action_history |-> action_history, conversation |-> conversation,
             last_error |-> last_error, total_usage |-> total_usage, rng |-> rng]

TimeoutMessage == "LLM call timeout after 120s"

----------------------------------------------------------------------------
(* __init__ *)

Init ==
    /\ game \in Games
    /\ player_id = 1       \* the pipeline never branches on the seat
    /\ rng \in 0 .. RngPeriod - 1
    /\ action_history = << >>
    /\ conversation = << >>
    /\ last_error = None
    /\ total_usage = ZeroUsage
    /\ pc = "idle"
    /\ state = << >>
    /\ prompt = None
    /\ attempt = 0
    /\ response = None
    /\ worker = "none"
    /\ turn = NoTurn
    /\ pre = None
    /\ episode = NewEpisode
    /\ lastOp = "__init__"
    /\ parsed = None

----------------------------------------------------------------------------
(* restart_at *)

\* variant: the reset forgets to clear _last_error
restart_at_keeps_error ==
    /\ pc = "idle"
    /\ action_history' = << >>
    /\ conversation' = << >>
    /\ total_usage' = ZeroUsage
    /\ episode' = NewEpisode
    /\ lastOp' = "restart_at"
    /\ turn' = NoTurn
    /\ pre' = Found
    /\ parsed' = None
    /\ UNCHANGED <<game, player_id, rng, pc, state, prompt, attempt, response, worker,
                   last_error>>

\* variant: the reset forgets to zero the usage counters
restart_at_keeps_usage ==
    /\ pc = "idle"
    /\ action_history' = << >>
    /\ conversation' = << >>
    /\ last_error' = None
    /\ episode' = NewEpisode
    /\ lastOp' = "restart_at"
    /\ turn' = NoTurn
    /\ pre' = Found
    /\ parsed' = None
    /\ UNCHANGED <<game, player_id, rng, pc, state, prompt, attempt, response, worker,
                   total_usage>>

restart_at ==
    /\ pc = "idle"
    /\ action_history' = << >>
    /\ conversation' = << >>
    /\ last_error' = None
    /\ total_usage' = ZeroUsage
    /\ episode' = NewEpisode
    /\ lastOp' = "restart_at"
    /\ turn' = NoTurn
    /\ pre' = Found
    /\ parsed' = None
    /\ UNCHANGED <<game, player_id, rng, pc, state, prompt, attempt, response, worker>>

(* inform_action *)

\* variant: the entry is put in front of the history
inform_action_prepend(p, a) ==
    /\ pc = "idle"
    /\ episode.informs < MaxInform
    /\ action_history' = <<<<p, a>>>> \o action_history
    /\ episode' = [episode EXCEPT
                      !.informs = @ + 1,
                      !.own_told = IF p = player_id THEN @ + 1 ELSE @,
                      !.protocol = /\ @
                                   /\ p = player_id =>
                                         /\ lastOp = "step"
                                         /\ turn.outcome = "returned"
                                         /\ turn.result = a]
    /\ lastOp' = "inform_action"
    /\ turn' = NoTurn
    /\ pre' = None
    /\ parsed' = None
    /\ UNCHANGED <<game, player_id, rng, conversation, last_error, total_usage,
                   pc, state, prompt, attempt, response, worker>>

inform_action(p, a) ==
    /\ pc = "idle"
    /\ episode.informs < MaxInform
    /\ action_history' = Append(action_history, <<p, a>>)
    /\ episode' = [episode EXCEPT
                      !.informs = @ + 1,
                      !.own_told = IF p = player_id THEN @ + 1 ELSE @,
                      !.protocol = /\ @
                                   /\ p = player_id =>
                                         /\ lastOp = "step"
                                         /\ turn.outcome = "returned"
                                         /\ turn.result = a]
    /\ lastOp' = "inform_action"
    /\ turn' = NoTurn
    /\ pre' = None
    /\ parsed' = None
    /\ UNCHANGED <<game, player_id, rng, conversation, last_error, total_usage,
                   pc, state, prompt, attempt, response, worker>>

----------------------------------------------------------------------------
(* step *)

\* lines 80-107: build the prompt, initialise the locals, enter the retry loop
StepBegin(st) ==
    /\ pc = "idle"
    /\ episode.turns < MaxTurns
    /\ state' = st
    /\ prompt' = _generate_prompt(game, st, conversation)
    /\ attempt' = 0
    /\ response' = None
    /\ pc' = "submit"
    /\ turn' = [NoTurn EXCEPT !.legal = st, !.prompt = prompt', !.outcome = "running",
                              !.stages = <<"BUILD_PROMPT">>]
    /\ pre' = Snapshot
    /\ parsed' = None
    /\ episode' = [episode EXCEPT !.turns = @ + 1]
    /\ UNCHANGED <<game, player_id, rng, action_history, conversation, last_error,
                   total_usage, worker, lastOp>>

\* variant: the prompt is generated again for every attempt
PromptForAttempt_rebuilt(p, game_name, st, conv) == _generate_prompt(game_name, st, conv)

\* line 89: the closure hands the prompt local of line 80 to the LLM function
PromptForAttempt(p, game_name, st, conv) == p

\* variant: the executor is shut down without waiting for its worker
Joined_nowait(w) == w

\* line 111: leaving the with block joins the executor's worker
Joined(w) == "none"

\* lines 111-112: a fresh single-worker executor runs the LLM function
Submit ==
    /\ pc = "submit"
    /\ worker' = "running"
    /\ pc' = "result"
    /\ turn' = [turn EXCEPT
                    !.calls = @ + 1,
                    !.sent = @ \cup {PromptForAttempt(prompt, game, state, conversation)},
                    !.stages = IF attempt = 0 THEN Append(@, "CALL_LLM") ELSE @]
    /\ UNCHANGED <<game, player_id, rng, action_history, conversation, last_error,
                   total_usage, state, prompt, attempt, response, pre, episode,
                   lastOp, parsed>>

\* variant: the loop index is recorded as the attempt count
LastErrorAfter_index(le, att, p, error_msg) ==
    IF att < max_retries - 1
    THEN le
    ELSE [prompt |-> p, error |-> error_msg, attempts |-> att]

\* variant: every failed attempt is recorded, not only the last one
LastErrorAfter_always(le, att, p, error_msg) ==
    [prompt |-> p, error |-> error_msg, attempts |-> max_retries]

\* lines 131-144 and 153-166: what a failed attempt leaves in _last_error
LastErrorAfter(le, att, p, error_msg) ==
    IF att < max_retries - 1
    THEN le
    ELSE [prompt |-> p, error |-> error_msg, attempts |-> max_retries]

\* variant: one attempt more than configured
max_attempts_one_more == max_retries + 1

\* line 109: range(max_retries), the number of loop iterations
max_attempts == max_retries

\* the two except clauses (lines 128-168), entered with the transcript and
\* the usage totals as the try body left them
HandleFailure(kind, error_msg, conv, usage, resp) ==
    /\ conversation' = conv
    /\ total_usage' = usage
    /\ worker' = Joined(worker)
    /\ last_error' = LastErrorAfter(last_error, attempt, prompt, error_msg)
    /\ IF attempt < max_attempts - 1
       THEN /\ pc' = "sleep"
            /\ turn' = Failed(turn, kind)
            /\ response' = resp
            /\ UNCHANGED <<rng, episode, lastOp, state, prompt, attempt>>
       ELSE /\ rng' = RngNext(rng)
            /\ pc' = "idle"
            /\ turn' = [Failed(turn, kind) EXCEPT !.outcome = "returned",
                                                   !.path = "exhausted",
                                                   !.result = RngChoice(rng, state),
                                                   !.draws = @ + 1,
                                                   !.stages = @ \o <<"FALLBACK", "DONE">>]
            /\ episode' = [episode EXCEPT
                              !.moves = @ + 1,
                              !.fallbacks = @ + 1,
                              !.exhausted = [prompt |-> turn.prompt,
                                             error |-> error_msg,
                                             attempts |-> turn.calls]]
            /\ lastOp' = "step"
            /\ state' = << >>
            /\ prompt' = None
            /\ attempt' = 0
            /\ response' = None
    /\ UNCHANGED <<game, player_id, action_history, pre, parsed>>

\* lines 113-126: the LLM function returned res within the timeout
Returns(res) ==
    /\ pc = "result"
    /\ worker = "running"
    /\ res.kind = "pair" => Len(conversation) + 2 <= 2 * MaxPairs
    /\ IF res.kind = "notpair"
       THEN HandleFailure("bad_result", "TypeError", conversation, total_usage, response)
       ELSE LET conv == conversation \o
                            <<[role |-> "user", content |-> prompt],
                              [role |-> "assistant", content |-> res.response]>>
                acc == Accumulate(total_usage, res.usage)
            IN  IF acc.exc # ""
                THEN HandleFailure("bad_result", acc.exc, conv, acc.usage, res.response)
                ELSE    /\ response' = res.response
                        /\ conversation' = conv
                        /\ total_usage' = acc.usage
                        /\ worker' = Joined(worker)
                        /\ pc' = "parse"
                        /\ UNCHANGED turn
                        /\ episode' = [episode EXCEPT !.ok_turns = @ + 1, !.reported =
                              [prompt_tokens |-> @.prompt_tokens +
                                  (IF res.usage.kind = "dict"
                                   THEN Reported(res.usage.prompt_tokens) ELSE 0),
                               completion_tokens |-> @.completion_tokens +
                                  (IF res.usage.kind = "dict"
                                   THEN Reported(res.usage.completion_tokens) ELSE 0),
                               total_tokens |-> @.total_tokens +
                                  (IF res.usage.kind = "dict"
                                   THEN Reported(res.usage.total_tokens) ELSE 0)]]
                        /\ UNCHANGED <<game, player_id, rng, action_history,
                                       last_error, state, prompt, attempt, pre,
                                       lastOp, parsed>>

\* the LLM function raised within the timeout; future.result re-raises it
Raises(exc) ==
    /\ pc = "result"
    /\ worker = "running"
    /\ IF exc = "TimeoutError"
       THEN HandleFailure("raise", TimeoutMessage, conversation, total_usage, response)
       ELSE HandleFailure("raise", exc, conversation, total_usage, response)

\* line 113: future.result(timeout=call_timeout) gives up; leaving the with
\* block runs executor.shutdown(wait=True), which joins the worker.  Whether
\* the LLM function ever completes is up to the LLM function.
TimeoutExpires ==
    /\ pc = "result"
    /\ worker = "running"
    /\ pc' = "shutdown"
    /\ worker' \in {"running", "hung"}
    /\ UNCHANGED <<game, player_id, rng, action_history, conversation, last_error,
                   total_usage, state, prompt, attempt, response, turn, pre,
                   episode, lastOp, parsed>>

\* the late worker finishes, shutdown returns and the TimeoutError reaches
\* the first except clause
WorkerFinishesLate ==
    /\ pc = "shutdown"
    /\ worker = "running"
    /\ HandleFailure("timeout", TimeoutMessage, conversation, total_usage, response)

\* lines 135 and 157: time.sleep(retry_delay), then the next loop iteration
Sleep ==
    /\ pc = "sleep"
    /\ attempt' = attempt + 1
    /\ pc' = "submit"
    /\ turn' = [turn EXCEPT !.sleeps = @ + 1]
    /\ UNCHANGED <<game, player_id, rng, action_history, conversation, last_error,
                   total_usage, state, prompt, response, worker, pre, episode,
                   lastOp, parsed>>

\* lines 171-177: parse, record, return; response.strip() raises on a
\* response that is not a string
ParseAndRecord ==
    /\ pc = "parse"
    /\ pc' = "idle"
    /\ lastOp' = "step"
    /\ IF response.kind # "str"
       THEN /\ turn' = [turn EXCEPT !.outcome = "raised", !.path = "parse",
                                        !.parses = @ + 1,
                                        !.stages = Append(@, "PARSE_ACTION")]
            /\ UNCHANGED <<rng, action_history, parsed, episode>>
       ELSE LET r == _parse_action(response.text, state, rng)
            IN  /\ rng' = r.rng
                /\ action_history' = Append(action_history, <<player_id, r.action>>)
                /\ turn' = [turn EXCEPT !.outcome = "returned", !.path = "parse",
                                        !.result = r.action,
                                        !.parses = @ + 1,
                                        !.draws = @ + r.draws,
                                        !.stages = @ \o <<"PARSE_ACTION", "RECORD", "DONE">>]
                /\ episode' = [episode EXCEPT !.moves = @ + 1]
                /\ parsed' = [kind |-> "call", text |-> response.text, legal |-> state,
                              rng |-> rng, action |-> r.action, rng_after |-> r.rng]
    /\ state' = << >>
    /\ prompt' = None
    /\ attempt' = 0
    /\ response' = None
    /\ UNCHANGED <<game, player_id, conversation, last_error, total_usage, worker, pre>>

Next ==
    \/ restart_at
    \/ \E p \in Players, a \in Actions : inform_action(p, a)
    \/ \E st \in LegalSets : StepBegin(st)
    \/ Submit
    \/ \E res \in Results : Returns(res)
    \/ \E exc \in RaisedByLLM : Raises(exc)
    \/ TimeoutExpires
    \/ WorkerFinishesLate
    \/ Sleep
    \/ ParseAndRecord

Spec == Init /\ [][Next]_vars

\* the steps the thread inside step takes by itself
StepInternal ==
    \/ Submit
    \/ \E res \in Results : Returns(res)
    \/ \E exc \in RaisedByLLM : Raises(exc)
    \/ TimeoutExpires
    \/ WorkerFinishesLate
    \/ Sleep
    \/ ParseAndRecord

\* The caller's thread keeps running, and an LLM call that is still running
\* returns, raises or outlasts the timeout; a call that hangs does nothing.
FairSpec == Spec /\ WF_vars(StepInternal)

----------------------------------------------------------------------------
(* The parser inside step on every short text: step has just received the  *)
(* text t (with no usage record) from the first attempt of the first turn   *)
(* and goes on to lines 171-177.                                            *)

ParseInit ==
    /\ game \in Games
    /\ player_id = 1
    /\ rng \in 0 .. RngPeriod - 1
    /\ state \in LegalSets
    /\ response \in {StrResponse(t) : t \in TextsUpTo(MaxLen)} \cup {None}
    /\ prompt = _generate_prompt(game, state, << >>)
    /\ action_history = << >>
    /\ conversation = <<[role |-> "user", content |-> prompt],
                        [role |-> "assistant", content |-> response]>>
    /\ last_error = None
    /\ total_usage = ZeroUsage
    /\ pc = "parse"
    /\ attempt = 0
    /\ worker = "none"
    /\ turn = [NoTurn EXCEPT !.legal = state, !.prompt = prompt, !.calls = 1,
                             !.outcome = "running", !.sent = {prompt},
                             !.stages = <<"BUILD_PROMPT", "CALL_LLM">>]
    /\ pre = [kind |-> "step", action_history |-> << >>, conversation |-> << >>,
              last_error |-> None,
              total_usage |-> ZeroUsage, rng |-> rng]
    /\ episode = [NewEpisode EXCEPT !.turns = 1, !.ok_turns = 1]
    /\ lastOp = "__init__"
    /\ parsed = None

ParseNext == ParseAndRecord

ParseSpec == ParseInit /\ [][ParseNext]_vars

----------------------------------------------------------------------------
TypeOK ==
    /\ pc \in {"idle", "submit", "result", "shutdown", "sleep", "parse"}
    /\ worker \in {"none", "running", "hung"}
    /\ attempt \in 0 .. max_retries - 1
    /\ turn.calls <= max_retries

----------------------------------------------------------------------------
(* Properties *)

StepReturned == pc = "idle" /\ lastOp = "step" /\ turn.outcome = "returned"
StepRaised == pc = "idle" /\ lastOp = "step" /\ turn.outcome = "raised"
StepEnded == StepReturned \/ StepRaised

\* C1: the action step returns is a member of state.legal_actions(own
\* player id) of that turn, whatever the LLM function did on each attempt.
C1_ReturnedActionIsLegal ==
    StepReturned => turn.result \in SeqToSet(turn.legal)

C1_Witness ==
    /\ StepReturned
    /\ turn.path = "exhausted"
    /\ turn.timeouts > 0
    /\ turn.failed > turn.timeouts
    /\ Len(turn.legal) = 2

\* C2: no failure escapes step: whatever the LLM function returns or raises,
\* step hands an action back to its caller and never raises.
C2_StepNeverRaises ==
    ~StepRaised

\* C3: when every attempt of a turn timed out, the LLM function was invoked
\* exactly 3 times, step returned the random source's choice among the legal
\* actions, and last_error holds the turn's prompt with attempts 3.
C3_AllTimeouts ==
    (StepEnded /\ turn.timeouts = turn.calls) =>
        /\ turn.calls = 3
        /\ StepReturned
        /\ turn.result = RngChoice(pre.rng, turn.legal)
        /\ turn.result \in SeqToSet(turn.legal)
        /\ last_error = [prompt |-> turn.prompt, error |-> TimeoutMessage, attempts |-> 3]

C3_Witness ==
    /\ StepReturned
    /\ turn.timeouts = 3
    /\ turn.calls = 3
    /\ pre.last_error # last_error

\* C4: a hang of the LLM function is tolerated: a step that has started
\* eventually returns to its caller.
C4_StepEventuallyReturns ==
    (pc # "idle") ~> (pc = "idle")

\* C5: every step call appends exactly one (own player id, returned action)
\* entry to the action history, on every path that produces the action.
C5_StepRecordsItsAction ==
    StepReturned =>
        action_history = Append(pre.action_history, <<player_id, turn.result>>)

\* C6: with non-negative reported counts, no step of the bot other than
\* restart_at makes any of the three usage counters smaller.
C6_UsageNonDecreasing ==
    [][\/ restart_at
       \/ /\ total_usage'.prompt_tokens >= total_usage.prompt_tokens
          /\ total_usage'.completion_tokens >= total_usage.completion_tokens
          /\ total_usage'.total_tokens >= total_usage.total_tokens]_vars

C6_Witness ==
    /\ pc = "idle"
    /\ total_usage.completion_tokens = 2
    /\ total_usage.prompt_tokens = 1
    /\ episode.turns = 2

\* C7: between turns each usage counter equals the sum, over the turns of the
\* episode whose LLM call succeeded, of the count that turn reported (missing
\* field or absent record counted as zero); failed attempts add nothing.
C7_UsageIsSumOfSuccessfulTurns ==
    pc = "idle" => total_usage = episode.reported

\* C8: last_error is none while no turn of the episode has exhausted its
\* retries, and otherwise is the single record (prompt, error description,
\* attempts 3) of the most recent turn that did.
C8_LastErrorIsMostRecentExhaustion ==
    IF episode.exhausted = None
    THEN last_error = None
    ELSE /\ DOMAIN last_error = {"prompt", "error", "attempts"}
         /\ last_error.prompt = episode.exhausted.prompt
         /\ last_error.error = episode.exhausted.error
         /\ last_error.attempts = 3
         /\ episode.exhausted.attempts = 3

C8_Witness ==
    /\ StepReturned
    /\ episode.fallbacks = 2
    /\ pre.last_error # None
    /\ pre.last_error.prompt # last_error.prompt
    /\ pre.last_error.error # last_error.error

\* C9: a turn in which an LLM attempt succeeds leaves last_error as it was,
\* both when earlier attempts of the turn failed and when the response held
\* no legal integer and the action came from the random fallback.
C9_SuccessfulTurnKeepsLastError ==
    (StepEnded /\ turn.path = "parse") => last_error = pre.last_error

C9_Witness ==
    /\ StepReturned
    /\ turn.path = "parse"
    /\ turn.failed = 2
    /\ parsed.rng_after # parsed.rng
    /\ pre.last_error # None

\* the standalone integer tokens of a text: maximal runs of word characters
\* that consist of digits only, as <<first, last>> positions
StandaloneIntegers(t) ==
    {ij \in (1 .. Len(t)) \X (1 .. Len(t)) :
        /\ ij[1] <= ij[2]
        /\ \A k \in ij[1] .. ij[2] : t[k] \in {"0", "1"}
        /\ (ij[1] = 1 \/ t[ij[1] - 1] = " ")
        /\ (ij[2] = Len(t) \/ t[ij[2] + 1] = " ")}

RECURSIVE Pow10(_)
Pow10(n) == IF n = 0 THEN 1 ELSE 10 * Pow10(n - 1)

RECURSIVE DecimalValue(_, _, _)
DecimalValue(t, i, j) ==
    IF i > j THEN 0
    ELSE (IF t[i] = "1" THEN Pow10(j - i) ELSE 0) + DecimalValue(t, i + 1, j)

ValueOf(t, ij) == DecimalValue(t, ij[1], ij[2])

FirstInteger(t) ==
    CHOOSE ij \in StandaloneIntegers(t) : \A o \in StandaloneIntegers(t) : ij[1] <= o[1]

\* C10: the parser returns the first standalone integer of the text when it is
\* legal, and in every other case the random source's choice among the legal
\* actions; step returns what the parser returns, so a text with exactly one
\* integer, equal to a legal id, makes step return that id.
C10_ParserContract ==
    parsed.kind = "call" =>
        LET ints == StandaloneIntegers(parsed.text)
            legal == SeqToSet(parsed.legal)
        IN  /\ IF ints # {} /\ ValueOf(parsed.text, FirstInteger(parsed.text)) \in legal
               THEN /\ parsed.action = ValueOf(parsed.text, FirstInteger(parsed.text))
                    /\ parsed.rng_after = parsed.rng
               ELSE /\ parsed.action = RngChoice(parsed.rng, parsed.legal)
                    /\ parsed.action \in legal
                    /\ parsed.rng_after = RngNext(parsed.rng)
            /\ StepReturned /\ turn.result = parsed.action /\ turn.legal = parsed.legal
            /\ (Cardinality(ints) = 1 /\ \E ij \in ints : ValueOf(parsed.text, ij) \in legal)
                  => \E ij \in ints : turn.result = ValueOf(parsed.text, ij)

C10_Witness ==
    /\ parsed.kind = "call"
    /\ StepReturned
    /\ Cardinality(StandaloneIntegers(parsed.text)) = 2
    /\ ValueOf(parsed.text, FirstInteger(parsed.text)) \notin SeqToSet(parsed.legal)
    /\ \E ij \in StandaloneIntegers(parsed.text) :
            ValueOf(parsed.text, ij) \in SeqToSet(parsed.legal)
    /\ parsed.rng_after # parsed.rng

----------------------------------------------------------------------------
(* Properties of the transcript, the reset and the worker *)

IsPrefix(a, b) == Len(a) <= Len(b) /\ SubSeq(b, 1, Len(a)) = a

\* C11: the transcript holds exactly one (user prompt, assistant response)
\* pair per turn of the episode whose LLM call succeeded, in turn order, and
\* a running or finished step has only appended to what it found.
C11_TranscriptIsOnePairPerSuccessfulTurn ==
    /\ pc = "idle" => Len(conversation) = 2 * episode.ok_turns
    /\ \A i \in 1 .. Len(conversation) :
          conversation[i].role = (IF i % 2 = 1 THEN "user" ELSE "assistant")
    /\ pre.kind = "step" => IsPrefix(pre.conversation, conversation)

\* C12: a restart_at call leaves the action history and the transcript empty,
\* last_error none and the three usage counters zero, whatever preceded it.
C12_RestartClearsEpisode ==
    [][(pc = "idle" /\ pc' = "idle" /\ lastOp' = "restart_at") =>
          /\ action_history' = << >>
          /\ conversation' = << >>
          /\ last_error' = None
          /\ total_usage' = ZeroUsage]_vars

C12_Witness ==
    /\ lastOp = "restart_at"
    /\ pc = "idle"
    /\ pre.kind = "restart"
    /\ pre.dirty
    /\ action_history = << >>
    /\ total_usage = ZeroUsage

\* C13: outside the call itself no worker of the step is alive: every attempt
\* starts exactly one worker, and that worker is gone before the retry delay,
\* before the next attempt, before parsing and when step has returned.
C13_NoWorkerOutlivesItsAttempt ==
    /\ pc \in {"idle", "submit", "sleep", "parse"} => worker = "none"
    /\ pc \in {"result", "shutdown"} => worker # "none" /\ turn.calls = attempt + 1
    /\ pc = "submit" => turn.calls = attempt

C13_Witness ==
    /\ StepReturned
    /\ turn.timeouts = 2
    /\ turn.calls = 3
    /\ turn.path = "parse"
    /\ worker = "none"

----------------------------------------------------------------------------
(* Properties of the retry loop and the stages of a turn *)

Min(a, b) == IF a <= b THEN a ELSE b

\* C14: a step invokes the LLM function between once and 3 times; a further
\* attempt is made only when all earlier ones failed, none after a success,
\* and the delay is slept once after every failed attempt but the third.
C14_RetryDiscipline ==
    /\ turn.calls <= 3
    /\ pc \in {"result", "shutdown"} => turn.failed = turn.calls - 1
    /\ pc \in {"submit", "sleep"} => turn.failed = turn.calls
    /\ pc = "submit" => turn.sleeps = turn.calls
    /\ pc \in {"result", "shutdown", "parse"} => turn.sleeps = turn.calls - 1
    /\ pc = "sleep" => turn.sleeps = turn.calls - 1 /\ turn.calls < 3
    /\ pc = "parse" => turn.failed = turn.calls - 1
    /\ StepEnded =>
          /\ turn.calls >= 1
          /\ turn.sleeps = Min(turn.failed, 2)
          /\ turn.path = "parse" => turn.calls = turn.failed + 1
          /\ turn.path = "exhausted" => turn.calls = 3 /\ turn.failed = 3

C14_Witness ==
    /\ StepReturned
    /\ turn.path = "parse"
    /\ turn.calls = 3
    /\ turn.sleeps = 2
    /\ turn.timeouts = 1

TurnStages ==
    {<<"BUILD_PROMPT", "CALL_LLM", "PARSE_ACTION", "RECORD", "DONE">>,
     <<"BUILD_PROMPT", "CALL_LLM", "FALLBACK", "DONE">>}

\* C15: the stages of a turn come in the order BUILD_PROMPT, CALL_LLM, then
\* PARSE_ACTION, RECORD, DONE or FALLBACK, DONE; every attempt gets the one
\* prompt built at the start; FALLBACK follows 3 failed attempts, and a turn
\* that takes it never calls the parser and draws once from the random source.
C15_StageOrder ==
    /\ turn.outcome # "none" =>
          /\ \E full \in TurnStages : IsPrefix(turn.stages, full)
          /\ turn.sent \subseteq {turn.prompt}
    /\ StepReturned => turn.stages \in TurnStages
    /\ (\E i \in 1 .. Len(turn.stages) : turn.stages[i] = "FALLBACK") =>
          /\ turn.failed = 3
          /\ turn.parses = 0
          /\ turn.draws = 1
          /\ turn.path = "exhausted"

C15_Witness ==
    /\ StepReturned
    /\ turn.stages = <<"BUILD_PROMPT", "CALL_LLM", "FALLBACK", "DONE">>
    /\ Len(conversation) > Len(pre.conversation)
    /\ game = "liars_dice"
    /\ pre.conversation = << >>
    /\ Cardinality(turn.sent) = 1

\* C16: in liars_dice the prompt of a step carries the rules exactly when the
\* step is the first one of the episode, whatever became of earlier turns.
C16_RulesOnFirstStepOnly ==
    (game = "liars_dice" /\ turn.outcome # "none") =>
        (turn.prompt.style = "rules" <=> episode.turns = 1)

----------------------------------------------------------------------------
(* Properties of inform_action, of the update of transcript and usage, of   *)
(* the history and of the random source                                     *)

\* C17: an inform_action call appends its one (player id, action) entry to
\* the end of the history and leaves the transcript, last_error, the usage
\* counters and the random source as they were, without starting any LLM call.
C17_InformOnlyAppends ==
    [][(pc = "idle" /\ pc' = "idle" /\ lastOp' = "inform_action") =>
          /\ \E p \in Players, a \in Actions :
                action_history' = Append(action_history, <<p, a>>)
          /\ conversation' = conversation
          /\ last_error' = last_error
          /\ total_usage' = total_usage
          /\ rng' = rng
          /\ worker' = "none"]_vars

C17_Witness ==
    /\ pc = "idle"
    /\ lastOp = "inform_action"
    /\ Len(action_history) = 2
    /\ action_history[1][1] = player_id
    /\ conversation # << >>
    /\ total_usage.total_tokens > 0

\* C18: whatever each attempt returns, one step appends at most one
\* prompt/response pair and adds at most one usage record, and a step that
\* ends in the retry-exhaustion fallback leaves transcript and usage untouched.
C18_TranscriptAndUsageAtomic ==
    StepEnded =>
        /\ Len(conversation) <= Len(pre.conversation) + 2
        /\ turn.path = "exhausted" =>
              /\ conversation = pre.conversation
              /\ total_usage = pre.total_usage

OwnEntries == Cardinality({i \in 1 .. Len(action_history) : action_history[i][1] = player_id})

\* C19: when the engine has notified the bot of every move made, the bot's
\* own ones included, the history holds one entry with the bot's player id
\* for every move the bot has made in the episode.
C19_HistoryHoldsEachOwnMoveOnce ==
    (pc = "idle" /\ episode.protocol /\ episode.own_told = episode.moves) =>
        OwnEntries = episode.moves

\* whether the parser, called on this text, has to fall back
NoLegalFirstInteger(t, legal) ==
    \/ StandaloneIntegers(t) = {}
    \/ ValueOf(t, FirstInteger(t)) \notin SeqToSet(legal)

\* C20: the random source moves only when a step ends in a fallback selection
\* (retry exhaustion or parse failure), by exactly one draw; the action a step
\* returns and the random state it leaves are fixed by the random state it
\* found, the legal actions and the outcome of its attempts, so equal seeds
\* and equal inputs give equal runs.
C20_SeededDeterminism ==
    [][/\ (pc = "idle" /\ pc' = "idle") => rng' = rng
       /\ pc' # "idle" => rng' = rng
       /\ (pc # "idle" /\ pc' = "idle" /\ turn'.outcome = "raised") =>
             rng' = rng /\ turn'.draws = 0
       /\ (pc # "idle" /\ pc' = "idle" /\ turn'.outcome = "returned") =>
             LET fallback == \/ turn'.path = "exhausted"
                             \/ NoLegalFirstInteger(parsed'.text, turn'.legal)
             IN  IF fallback
                 THEN /\ turn'.draws = 1
                      /\ rng' = RngNext(pre'.rng)
                      /\ turn'.result = RngChoice(pre'.rng, turn'.legal)
                 ELSE /\ turn'.draws = 0
                      /\ rng' = pre'.rng
                      /\ turn'.result = ValueOf(parsed'.text, FirstInteger(parsed'.text))]_vars

C20_Witness ==
    /\ StepReturned
    /\ turn.path = "parse"
    /\ turn.failed > 0
    /\ turn.draws = 0
    /\ rng = pre.rng
    /\ episode.fallbacks = 1
    /\ Len(turn.legal) = 2

====
